---- MODULE Spec2Model ----
(***************************************************************************)
(* Video/audio matcher and merge orchestrators of the repository.          *)
(*                                                                         *)
(*   SpecSim    the similarity score (difflib.SequenceMatcher.ratio)       *)
(*   SpecMatch  VideoAudioMerger.match_files                               *)
(*   SpecCli    VideoAudioMerger.merge_all / merge_file / quick_merge      *)
(*   SpecGui    VideoAudioMergerGUI.start_merge / stop_merge / merge_all / *)
(*              merge_single (thread pool variant)                         *)
(*   SpecScenario  match_files on the files ep1 / ep2 / ep2_audio          *)
(*   SpecPath   the output path resolved by merge_file / merge_single      *)
(*   SpecSetup  quick_merge: VideoAudioMerger.__init__, verify_ffmpeg,     *)
(*              then the batch                                             *)
(*   SpecProgress  FFmpegProgress fed by merge_single_with_progress        *)
(*   SpecSeq    start_merge / stop_merge / merge_all of the GUI with live  *)
(*              progress: one worker thread, the UI timer, progress_lock   *)
(*                                                                         *)
(* Strings are sequences of one-character strings.  A score is the exact   *)
(* rational <<numerator, denominator>> of the float the code computes; for *)
(* the short strings used here distinct rationals are distinct floats.     *)
(***************************************************************************)
EXTENDS Integers, Sequences, FiniteSets, TLC

VARIABLES
    \* ---- similarity ----
    sim_a, sim_b,          \* the two strings handed to similarity
    score_ab, score_ba,    \* similarity(a, b), similarity(b, a); None until called
    \* ---- matcher ----
    video_files, audio_files, similarity_threshold,
    matches,               \* self.matches
    match_pc,              \* "input" | "matched" | "repeated"
    returned,              \* lists returned by the calls of match_files on the inputs
    \* ---- merge orchestrators ----
    output_dir,            \* None or a directory
    overwrite,             \* BOOLEAN
    max_workers,           \* size of the thread pool
    fs,                    \* output path -> content of the file there
    run,                   \* 1 for the first batch, 2 for the repeated one
    main_pc,               \* position of the thread running merge_all
    work_queue,            \* executor's queue of submitted, unstarted work items
    task_pc,               \* per match: "new" | "queued" | "merge" | "proc" | "done"
    fut,                   \* per match: state of its future
    yielded,               \* futures as_completed has handed to the loop
    results,               \* the list merge_all builds
    launched,              \* per match: external processes started in this run
    overdue,               \* matches whose external process has run for more than Timeout
    success_count,         \* the caller's tally, None until computed
    \* ---- GUI ----
    is_running,            \* self.is_running
    merge_btn, stop_btn,   \* state of the start and stop buttons
    failed_count,          \* failures shown in the final message box
    \* ---- output path of one merge ----
    suffix,                \* output_suffix / suffix handed to merge_file
    output_path,           \* the resolved output_path, NoPath until computed
    \* ---- tool set-up ----
    provided_path,         \* the ffmpeg_path argument: what lies at that path
    config,                \* what the saved configuration file holds
    in_path,               \* an ffmpeg executable is on the system PATH
    common,                \* an ffmpeg executable is at a common install location
    config_file,           \* self.config_file, "unset" until __init__ assigns it
    ffmpeg_path,           \* self.ffmpeg_path, "unset" until __init__ assigns it
    error,                 \* what the run reported or raised, None if nothing
    \* ---- progress parser of one task (FFmpegProgress) ----
    stream,                \* the lines the external process writes, in order
    pos,                   \* how many of them the read loop has consumed
    duration,              \* progress.duration, in seconds
    current_time,          \* progress.current_time, in seconds
    percentage,            \* progress.percentage, as <<numerator, denominator>>
    published,             \* current_progress[filename]['percentage'], <<>> if none
    speed,                 \* progress.speed: the text of the last speed read, <<>> for 0
    raised,                \* exception that left the read loop, None if none
    returncode,            \* <<exit code>> of the external process, <<>> while it runs
    task_result,           \* what merge_all recorded for the task, None until then
    \* ---- GUI with live progress: one worker thread, one UI thread ----
    show_detailed_progress,\* the "detailed progress" option
    current_progress,      \* self.current_progress: file name -> entry
    progress_labels,       \* self.progress_labels: file name -> widget
    label_shows,           \* per widget: <<>> ("waiting") or <<match whose entry it displays>>
    progress_lock,         \* holder of self.progress_lock, None if free
    worker_pc,             \* position of the merge_all thread
    ui_pc,                 \* position of the UI thread inside a handler
    seq_i,                 \* index of the match the loop of merge_all is at
    proc                   \* per match: state of its external process

simVars   == <<sim_a, sim_b, score_ab, score_ba>>
matchVars == <<video_files, audio_files, similarity_threshold, matches, match_pc,
               returned>>
cfgVars   == <<output_dir, overwrite, max_workers>>
poolVars  == <<work_queue, task_pc, fut, launched, overdue>>
mainVars  == <<run, main_pc, yielded, results, success_count>>
guiVars   == <<is_running, merge_btn, stop_btn, failed_count>>
pathVars  == <<suffix, output_path>>
toolVars  == <<provided_path, config, in_path, common, config_file, ffmpeg_path, error>>
progVars  == <<stream, pos, duration, current_time, percentage, published, speed,
               raised, returncode, task_result>>
seqVars   == <<show_detailed_progress, current_progress, progress_labels, label_shows,
               progress_lock, worker_pc, ui_pc, seq_i, proc>>
restVars  == <<pathVars, toolVars, progVars, seqVars>>
orchVars  == <<cfgVars, fs, poolVars, mainVars, guiVars, restVars>>
vars      == <<simVars, matchVars, orchVars>>

None == "None"
NoPath == [dir |-> None, name |-> <<>>]     \* output_path before it is assigned

(***************************************************************************)
(* Bounds                                                                  *)
(***************************************************************************)
MaxLen    == 3     \* longest string handed to similarity in SpecSim
MaxVideos == 2     \* longest video list in SpecMatch
MaxAudios == 2     \* longest audio list in SpecMatch
MaxTasks  == 2     \* largest batch handed to merge_all
MaxWorkers == 2    \* largest max_workers
MaxPreset == 1     \* most output paths that are not plain absent before the first batch
MaxBatches == 2    \* most batches started from the GUI

Alphabet == {"a", "b", "c"}

RECURSIVE StringsUpTo(_)
StringsUpTo(n) ==
    IF n = 0 THEN {<<>>}
    ELSE LET shorter == StringsUpTo(n - 1)
         IN  shorter \cup {Append(s, ch) : s \in {x \in shorter : Len(x) = n - 1},
                                            ch \in Alphabet}

(***************************************************************************)
(* difflib.SequenceMatcher(None, a, b).ratio()                             *)
(* (autojunk only acts on strings of 200 characters or more; isjunk is     *)
(* None, so no element is junk.)                                           *)
(***************************************************************************)
Min(S) == CHOOSE x \in S : \A y \in S : x <= y
Max(S) == CHOOSE x \in S : \A y \in S : x >= y

\* a[i .. i+k-1] = b[j .. j+k-1], both inside the half-open windows
\* [alo, ahi) and [blo, bhi) (1-based positions).
BlockAt_ShortWindow(a, b, i, j, k, ahi, bhi) ==
    /\ i + k < ahi
    /\ j + k <= bhi
    /\ \A d \in 0 .. (k - 1) : a[i + d] = b[j + d]
BlockAt(a, b, i, j, k, ahi, bhi) ==
    /\ i + k <= ahi
    /\ j + k <= bhi
    /\ \A d \in 0 .. (k - 1) : a[i + d] = b[j + d]

\* find_longest_match: the longest common block; of the longest ones the
\* one starting earliest in a, and of those the one starting earliest in b.
FindLongestMatch(a, b, alo, ahi, blo, bhi) ==
    LET sizes == {k \in 1 .. (ahi - alo) :
                     \E i \in alo .. (ahi - 1), j \in blo .. (bhi - 1) :
                         BlockAt(a, b, i, j, k, ahi, bhi)}
    IN  IF sizes = {} THEN <<alo, blo, 0>>
        ELSE LET k     == Max(sizes)
                 besti == Min({i \in alo .. (ahi - 1) :
                                  \E j \in blo .. (bhi - 1) :
                                      BlockAt(a, b, i, j, k, ahi, bhi)})
                 bestj == Min({j \in blo .. (bhi - 1) :
                                  BlockAt(a, b, besti, j, k, ahi, bhi)})
             IN  <<besti, bestj, k>>

\* get_matching_blocks: total size of the blocks found by splitting the
\* windows to the left and to the right of the longest match.
RECURSIVE MatchedSize(_, _, _, _, _, _)
MatchedSize(a, b, alo, ahi, blo, bhi) ==
    LET m == FindLongestMatch(a, b, alo, ahi, blo, bhi)
        i == m[1]
        j == m[2]
        k == m[3]
    IN  IF k = 0 THEN 0
        ELSE k
             + (IF alo < i /\ blo < j
                   THEN MatchedSize(a, b, alo, i, blo, j) ELSE 0)
             + (IF i + k < ahi /\ j + k < bhi
                   THEN MatchedSize(a, b, i + k, ahi, j + k, bhi) ELSE 0)

\* ratio(): 2.0 * matches / length, 1.0 when both strings are empty.
similarity_ByFirstLength(a, b) ==
    IF Len(a) + Len(b) = 0 THEN <<1, 1>>
    ELSE <<2 * MatchedSize(a, b, 1, Len(a) + 1, 1, Len(b) + 1), 2 * Len(a)>>
similarity(a, b) ==
    IF Len(a) + Len(b) = 0 THEN <<1, 1>>
    ELSE <<2 * MatchedSize(a, b, 1, Len(a) + 1, 1, Len(b) + 1), Len(a) + Len(b)>>

\* comparisons of scores
ScoreEq(x, y) == x[1] * y[2] = y[1] * x[2]
ScoreGt(x, y) == x[1] * y[2] > y[1] * x[2]
ScoreGe_Strict(x, y) == x[1] * y[2] > y[1] * x[2]
ScoreGe(x, y) == x[1] * y[2] >= y[1] * x[2]

(***************************************************************************)
(* Media files.  A file is its path: directory, stem and extension.        *)
(* scan_directory lists every file of the tree once, so the lists handed   *)
(* to match_files hold pairwise distinct paths.                            *)
(***************************************************************************)
Dirs  == {"d1", "d2"}
Stems == {<<"a", "b">>, <<"a", "b", "c">>, <<"c">>}
VideoPool == [dir : Dirs, stem : Stems, ext : {".mp4"}]
AudioPool == [dir : Dirs, stem : Stems, ext : {".m4a"}]
Thresholds == {0, 50, 80, 100}     \* similarity_threshold, in hundredths

RECURSIVE DistinctSeqs(_, _)
DistinctSeqs(S, n) ==
    IF n = 0 THEN {<<>>}
    ELSE LET shorter == DistinctSeqs(S, n - 1)
         IN  shorter \cup
             UNION {{Append(q, x) : x \in {y \in S : \A i \in DOMAIN q : q[i] # y}} :
                       q \in {r \in shorter : Len(r) = n - 1}}

(***************************************************************************)
(* match_files                                                             *)
(***************************************************************************)
\* matched_audio.add(str(audio))
MarkForgets(matched_audio, audio) == matched_audio
MarkMatched(matched_audio, audio) == matched_audio \cup {audio}

\* unmatched_audios.remove(best_match): drops the first equal element
RECURSIVE RemoveFirst(_, _)
RemoveFirst(q, x) ==
    IF q = <<>> THEN <<>>
    ELSE IF Head(q) = x THEN Tail(q)
    ELSE <<Head(q)>> \o RemoveFirst(Tail(q), x)

\* the dictionary appended to matches by the first pass
ExactMatch_AsSimilar(video, audio) ==
    [video |-> video, audio |-> audio, match_type |-> "similar",
     similarity |-> similarity(video.stem, audio.stem)]
ExactMatch(video, audio) ==
    [video |-> video, audio |-> audio, match_type |-> "exact", similarity |-> <<1, 1>>]

\* "for audio in audio_dict[video_stem]: if str(audio) not in matched_audio:
\* ... break": the audio taken from the bucket's unconsumed members
FirstFree_Last(free) == free[Len(free)]
FirstFree(free) == free[1]

\* First pass: every video, in list order, takes the first audio of its
\* stem's bucket (audio_dict[video_stem]) that is not in matched_audio.
RECURSIVE ExactPass(_, _, _, _, _)
ExactPass(videos, audios, i, ms, matched_audio) ==
    IF i > Len(videos) THEN [matches |-> ms, matched_audio |-> matched_audio]
    ELSE LET video  == videos[i]
             bucket == SelectSeq(audios, LAMBDA a : a.stem = video.stem)
             free   == SelectSeq(bucket, LAMBDA a : a \notin matched_audio)
         IN  IF Len(free) > 0
             THEN ExactPass(videos, audios, i + 1,
                            Append(ms, ExactMatch(video, FirstFree(free))),
                            MarkMatched(matched_audio, FirstFree(free)))
             ELSE ExactPass(videos, audios, i + 1, ms, matched_audio)

\* "score > best_score" of the inner loop
BeatsBest_OrTies(score, best_score) == ~ScoreGt(best_score, score)
BeatsBest(score, best_score) == ScoreGt(score, best_score)

\* the dictionary appended to matches by the second pass
SimilarMatch_AsExact(video, audio, score) ==
    [video |-> video, audio |-> audio, match_type |-> "exact", similarity |-> score]
SimilarMatch(video, audio, score) ==
    [video |-> video, audio |-> audio, match_type |-> "similar", similarity |-> score]

\* Inner loop of the second pass: scan unmatched_audios in order, keeping
\* (best_match, best_score); best_score starts at 0 and best_match at None,
\* written <<>>, an audio found being written <<audio>>.
RECURSIVE BestAudio(_, _, _, _, _, _)
BestAudio(video_stem, unmatched_audios, j, threshold, best_match, best_score) ==
    IF j > Len(unmatched_audios) THEN <<best_match, best_score>>
    ELSE LET audio == unmatched_audios[j]
             score == similarity(video_stem, audio.stem)
         IN  IF BeatsBest(score, best_score) /\ ScoreGe(score, <<threshold, 100>>)
             THEN BestAudio(video_stem, unmatched_audios, j + 1, threshold,
                            <<audio>>, score)
             ELSE BestAudio(video_stem, unmatched_audios, j + 1, threshold,
                            best_match, best_score)

\* Second pass over the videos left unmatched by the first.
RECURSIVE FuzzyPass(_, _, _, _, _)
FuzzyPass(unmatched_videos, i, unmatched_audios, threshold, ms) ==
    IF i > Len(unmatched_videos) THEN ms
    ELSE LET video == unmatched_videos[i]
             best  == BestAudio(video.stem, unmatched_audios, 1, threshold,
                                <<>>, <<0, 1>>)
         IN  IF best[1] # <<>>
             THEN FuzzyPass(unmatched_videos, i + 1,
                            RemoveFirst(unmatched_audios, best[1][1]), threshold,
                            Append(ms, SimilarMatch(video, best[1][1], best[2])))
             ELSE FuzzyPass(unmatched_videos, i + 1, unmatched_audios,
                            threshold, ms)

MatchFiles_NoExactPass(videos, audios, threshold) ==
    FuzzyPass(videos, 1, audios, threshold, <<>>)
MatchFiles(videos, audios, threshold) ==
    LET exact == ExactPass(videos, audios, 1, <<>>, {})
        unmatched_videos ==
            SelectSeq(videos, LAMBDA v :
                ~ \E k \in DOMAIN exact.matches : exact.matches[k].video = v)
        unmatched_audios ==
            SelectSeq(audios, LAMBDA a : a \notin exact.matched_audio)
    IN  FuzzyPass(unmatched_videos, 1, unmatched_audios, threshold, exact.matches)

(***************************************************************************)
(* Parts of the state a specification does not use                         *)
(***************************************************************************)
SimUnused ==
    /\ sim_a = <<>>
    /\ sim_b = <<>>
    /\ score_ab = None
    /\ score_ba = None

MatchUnused ==
    /\ video_files = <<>>
    /\ audio_files = <<>>
    /\ similarity_threshold = 80
    /\ matches = <<>>
    /\ match_pc = "input"
    /\ returned = <<>>

GuiUnused ==
    /\ is_running = FALSE
    /\ merge_btn = "disabled"
    /\ stop_btn = "disabled"
    /\ failed_count = None

PathUnused ==
    /\ suffix = "_merged"
    /\ output_path = NoPath

ToolUnused ==
    /\ provided_path = None
    /\ config = "absent"
    /\ in_path = FALSE
    /\ common = FALSE
    /\ config_file = "unset"
    /\ ffmpeg_path = "unset"
    /\ error = None

ProgUnused ==
    /\ stream = <<>>
    /\ pos = 0
    /\ duration = 0
    /\ current_time = 0
    /\ percentage = <<0, 1>>
    /\ published = <<>>
    /\ speed = <<>>
    /\ raised = None
    /\ returncode = <<>>
    /\ task_result = None

SeqUnused ==
    /\ show_detailed_progress = TRUE
    /\ current_progress = <<>>
    /\ progress_labels = <<>>
    /\ label_shows = <<>>
    /\ progress_lock = None
    /\ worker_pc = "idle"
    /\ ui_pc = "idle"
    /\ seq_i = 1
    /\ proc = <<>>

RestUnused == PathUnused /\ ToolUnused /\ ProgUnused /\ SeqUnused

OrchUnused ==
    /\ RestUnused
    /\ output_dir = None
    /\ overwrite = FALSE
    /\ max_workers = 1
    /\ fs = <<>>
    /\ run = 1
    /\ main_pc = "idle"
    /\ work_queue = <<>>
    /\ task_pc = <<>>
    /\ fut = <<>>
    /\ yielded = {}
    /\ results = <<>>
    /\ launched = <<>>
    /\ overdue = {}
    /\ success_count = None
    /\ GuiUnused

(***************************************************************************)
(* SpecSim: the similarity function applied to bounded strings             *)
(***************************************************************************)
InitSim ==
    /\ sim_a \in StringsUpTo(MaxLen)
    /\ sim_b \in StringsUpTo(MaxLen)
    /\ score_ab = None
    /\ score_ba = None
    /\ MatchUnused
    /\ OrchUnused

\* self.similarity(a, b)
SimilarityAB ==
    /\ score_ab = None
    /\ score_ab' = similarity(sim_a, sim_b)
    /\ UNCHANGED <<sim_a, sim_b, score_ba, matchVars, orchVars>>

\* self.similarity(b, a)
SimilarityBA ==
    /\ score_ba = None
    /\ score_ba' = similarity(sim_b, sim_a)
    /\ UNCHANGED <<sim_a, sim_b, score_ab, matchVars, orchVars>>

NextSim == SimilarityAB \/ SimilarityBA

SpecSim == InitSim /\ [][NextSim]_vars

\* C10 as stated: the similarity score is symmetric,
\* similarity(a, b) = similarity(b, a) for all strings a and b.
C10_Symmetric ==
    (score_ab # None /\ score_ba # None) => ScoreEq(score_ab, score_ba)

\* C10, amended: similarity(a, b) and similarity(b, a) have the same
\* denominator len(a) + len(b), and one is 1.0 exactly when the other is and
\* 0.0 exactly when the other is; between the two the score may depend on the
\* order of the arguments.
C10_SymmetricAtExtremes ==
    (score_ab # None /\ score_ba # None) =>
        /\ score_ab[2] = score_ba[2]
        /\ ScoreEq(score_ab, <<1, 1>>) <=> ScoreEq(score_ba, <<1, 1>>)
        /\ ScoreEq(score_ab, <<0, 1>>) <=> ScoreEq(score_ba, <<0, 1>>)

\* both orders were scored for two different strings of different lengths
\* that share a character
C10_Witness ==
    /\ score_ab # None /\ score_ba # None
    /\ Len(sim_a) # Len(sim_b)
    /\ ScoreGt(score_ab, <<0, 1>>)
    /\ ScoreEq(score_ab, score_ba)

\* the two strings share no character
NoCommonChar(a, b) == ~ \E i \in DOMAIN a, j \in DOMAIN b : a[i] = b[j]

\* C11 as stated: similarity(a, a) is 1.0 for every non-empty a, and
\* similarity(a, b) is 0.0 whenever a and b have no character in common.
C11_IdenticalOneDisjointZero ==
    score_ab # None =>
        /\ (sim_a = sim_b /\ sim_a # <<>>) => ScoreEq(score_ab, <<1, 1>>)
        /\ NoCommonChar(sim_a, sim_b) => ScoreEq(score_ab, <<0, 1>>)

\* C11, amended: similarity(a, a) is 1.0 for every non-empty a, and
\* similarity(a, b) is 0.0 whenever a and b have no character in common and
\* are not both empty; two empty strings score 1.0.
C11_IdenticalOneDisjointNonEmptyZero ==
    score_ab # None =>
        /\ (sim_a = sim_b /\ sim_a # <<>>) => ScoreEq(score_ab, <<1, 1>>)
        /\ (NoCommonChar(sim_a, sim_b) /\ Len(sim_a) + Len(sim_b) > 0)
              => ScoreEq(score_ab, <<0, 1>>)
        /\ (sim_a = <<>> /\ sim_b = <<>>) => ScoreEq(score_ab, <<1, 1>>)

\* a string of several characters was scored against itself
C11_Witness ==
    /\ score_ab # None
    /\ sim_a = sim_b /\ Len(sim_a) >= 2
    /\ ScoreEq(score_ab, <<1, 1>>)

(***************************************************************************)
(* SpecMatch: match_files on bounded lists of distinct files               *)
(***************************************************************************)
InitMatch ==
    /\ video_files \in DistinctSeqs(VideoPool, MaxVideos)
    /\ audio_files \in DistinctSeqs(AudioPool, MaxAudios)
    /\ similarity_threshold \in Thresholds
    /\ matches = <<>>
    /\ match_pc = "input"
    /\ returned = <<>>
    /\ SimUnused
    /\ OrchUnused

\* "matches = []": the list a call builds starts empty, whatever self.matches
\* holds from an earlier call
FreshMatches_Reuse(self_matches) == self_matches
FreshMatches(self_matches) == <<>>

\* an earlier call of match_files on the same object, for another scan:
\* one video and one audio, default threshold
match_files_earlier ==
    /\ match_pc = "input"
    /\ matches = <<>>
    /\ \E v \in {x \in VideoPool : x.dir = "d1" /\ x.stem = <<"c">>},
          a \in {y \in AudioPool : y.stem = <<"c">>} :
          matches' = FreshMatches(matches) \o MatchFiles(<<v>>, <<a>>, 80)
    /\ UNCHANGED <<video_files, audio_files, similarity_threshold, match_pc,
                   returned, simVars, orchVars>>

\* merger.match_files(video_files, audio_files, similarity_threshold)
match_files ==
    /\ match_pc = "input"
    /\ matches' = FreshMatches(matches)
                    \o MatchFiles(video_files, audio_files, similarity_threshold)
    /\ returned' = Append(returned, matches')
    /\ match_pc' = "matched"
    /\ UNCHANGED <<video_files, audio_files, similarity_threshold, simVars, orchVars>>

\* the same call once more, on the same lists and threshold
match_files_repeat ==
    /\ match_pc = "matched"
    /\ matches' = FreshMatches(matches)
                    \o MatchFiles(video_files, audio_files, similarity_threshold)
    /\ returned' = Append(returned, matches')
    /\ match_pc' = "repeated"
    /\ UNCHANGED <<video_files, audio_files, similarity_threshold, simVars, orchVars>>

NextMatch == match_files_earlier \/ match_files \/ match_files_repeat

SpecMatch == InitMatch /\ [][NextMatch]_vars

\* C1: in the list returned by match_files every video file and every audio
\* file appears in at most one candidate.
C1_OneToOne ==
    match_pc = "matched" =>
        \A i, j \in DOMAIN matches :
            i # j => /\ matches[i].video # matches[j].video
                     /\ matches[i].audio # matches[j].audio

\* Two candidates were returned, one from each pass, and an audio was left over
\* for neither.
C1_Witness ==
    /\ match_pc = "matched"
    /\ Len(matches) = 2
    /\ \E i, j \in DOMAIN matches :
          matches[i].match_type = "exact" /\ matches[j].match_type = "similar"

\* files of the input lists that no returned candidate holds
UnmatchedVideos ==
    {video_files[i] : i \in DOMAIN video_files}
        \ {matches[k].video : k \in DOMAIN matches}
UnmatchedAudios ==
    {audio_files[j] : j \in DOMAIN audio_files}
        \ {matches[k].audio : k \in DOMAIN matches}

\* C12: with threshold 1.0 match_files returns no candidate of type
\* 'similar': every candidate is an exact match of two equal stems.
C12_ThresholdOneOnlyExact ==
    (match_pc = "matched" /\ similarity_threshold = 100) =>
        \A k \in DOMAIN matches :
            /\ matches[k].match_type = "exact"
            /\ matches[k].video.stem = matches[k].audio.stem

\* threshold 1.0: one exact candidate survives, and a video is left next to
\* an audio that a threshold of 0.8 would have paired it with
C12_Witness ==
    /\ match_pc = "matched" /\ similarity_threshold = 100
    /\ Len(matches) = 1
    /\ \E v \in UnmatchedVideos, a \in UnmatchedAudios :
          ScoreGe(similarity(v.stem, a.stem), <<80, 100>>)

\* positions in video_files of the videos the first pass left unmatched
FuzzyVideos ==
    {i \in DOMAIN video_files :
        ~ \E k \in DOMAIN matches :
              matches[k].video = video_files[i] /\ matches[k].match_type = "exact"}

\* position in video_files of the video of candidate k
VideoIndex(k) == CHOOSE i \in DOMAIN video_files : video_files[i] = matches[k].video

\* audios still unconsumed when the second pass reaches video i: those taken
\* neither by the first pass nor by the second pass for an earlier video
AvailableAt(i) ==
    {audio_files[j] : j \in DOMAIN audio_files}
        \ {matches[k].audio : k \in {n \in DOMAIN matches :
                                        \/ matches[n].match_type = "exact"
                                        \/ VideoIndex(n) < i}}

\* the best score of video i against the audios in S, as a set holding it
BestScoreAt(i, S) ==
    {similarity(video_files[i].stem, a.stem) : a \in
        {b \in S : \A c \in S :
            similarity(video_files[i].stem, b.stem)[1]
                * similarity(video_files[i].stem, c.stem)[2]
            >= similarity(video_files[i].stem, c.stem)[1]
                * similarity(video_files[i].stem, b.stem)[2]}}

\* candidate of type 'similar' returned for video i
SimilarOf(i) ==
    {k \in DOMAIN matches :
        matches[k].video = video_files[i] /\ matches[k].match_type = "similar"}

BucketOf(i) == SelectSeq(audio_files, LAMBDA a : a.stem = video_files[i].stem)

\* how many videos up to and including video i have its stem
RankInStem(i) ==
    Cardinality({j \in 1 .. i : video_files[j].stem = video_files[i].stem})

\* candidates of type 'exact' returned for video i
ExactOf(i) ==
    {k \in DOMAIN matches :
        matches[k].video = video_files[i] /\ matches[k].match_type = "exact"}

\* C25: the exact pass takes the videos in list order; the i-th video of a
\* stem is paired with the i-th audio of that stem in discovery order, as a
\* candidate of type exact with score 1.0, and a video whose stem has no
\* audio, or fewer audios than videos before it, gets no exact candidate.
C25_ExactPassInOrder ==
    match_pc = "matched" =>
        /\ \A i \in DOMAIN video_files :
              IF RankInStem(i) <= Len(BucketOf(i))
              THEN \E k \in DOMAIN matches :
                      /\ ExactOf(i) = {k}
                      /\ matches[k].audio = BucketOf(i)[RankInStem(i)]
                      /\ matches[k].similarity = <<1, 1>>
              ELSE ExactOf(i) = {}
        /\ \A k, l \in DOMAIN matches :
              (k < l /\ matches[k].match_type = "exact" /\ matches[l].match_type = "exact")
                  => VideoIndex(k) < VideoIndex(l)

\* two videos and two audios of one stem, in two directories: the first
\* video got the first audio and the second the second
C25_Witness ==
    /\ match_pc = "matched"
    /\ Len(video_files) = 2 /\ Len(audio_files) = 2
    /\ video_files[1].stem = video_files[2].stem
    /\ audio_files[1].stem = video_files[1].stem
    /\ audio_files[2].stem = video_files[1].stem
    /\ audio_files[1].dir # video_files[1].dir
    /\ Len(matches) = 2
    /\ matches[1].audio = audio_files[1]
    /\ matches[2].audio = audio_files[2]

\* position in audio_files of an audio
AudioIndex(a) == CHOOSE j \in DOMAIN audio_files : audio_files[j] = a

\* score of video i against audio a, as the code computes it
ScoreOf(i, a) == similarity(video_files[i].stem, a.stem)

\* C26: every candidate of the fuzzy pass holds, for its video, the audio
\* with the highest score among those unconsumed when the video's turn came,
\* the first in discovery order among equal scores; the candidates come in
\* video order, and an audio accepted for a video stays with it even when a
\* later video scores higher against it.
C26_GreedyByVideoOrder ==
    match_pc = "matched" =>
        /\ \A k \in DOMAIN matches :
              matches[k].match_type = "similar" =>
                  LET i == VideoIndex(k)
                      a == matches[k].audio
                  IN  /\ a \in AvailableAt(i)
                      /\ matches[k].similarity = ScoreOf(i, a)
                      /\ \A b \in AvailableAt(i) :
                            /\ ScoreOf(i, a)[1] * ScoreOf(i, b)[2]
                                  >= ScoreOf(i, b)[1] * ScoreOf(i, a)[2]
                            /\ (ScoreOf(i, a)[1] * ScoreOf(i, b)[2]
                                  = ScoreOf(i, b)[1] * ScoreOf(i, a)[2])
                               => AudioIndex(a) <= AudioIndex(b)
        /\ \A k, l \in DOMAIN matches :
              (k < l /\ matches[k].match_type = "similar"
                     /\ matches[l].match_type = "similar")
                  => VideoIndex(k) < VideoIndex(l)

\* the first video took an audio with a lower score than the second video
\* has against it, and the second video stayed without a candidate
C26_Witness ==
    /\ match_pc = "matched"
    /\ Len(video_files) = 2
    /\ Len(matches) = 1
    /\ matches[1].match_type = "similar"
    /\ matches[1].video = video_files[1]
    /\ ScoreOf(2, matches[1].audio)[1] * ScoreOf(1, matches[1].audio)[2]
          > ScoreOf(1, matches[1].audio)[1] * ScoreOf(2, matches[1].audio)[2]
    /\ video_files[2].stem # matches[1].audio.stem
    /\ similarity_threshold > 0

\* C28: a candidate of type 'exact' pairs equal stems with similarity 1.0; a
\* candidate of type 'similar' pairs different stems with a similarity of at
\* least the threshold and below 1.0; when no video stem is an audio stem no
\* candidate of type 'exact' is returned.
C28_TypesAgreeWithStems ==
    match_pc = "matched" =>
        /\ \A k \in DOMAIN matches :
              /\ matches[k].match_type \in {"exact", "similar"}
              /\ matches[k].match_type = "exact" =>
                    /\ matches[k].video.stem = matches[k].audio.stem
                    /\ matches[k].similarity = <<1, 1>>
              /\ matches[k].match_type = "similar" =>
                    /\ matches[k].video.stem # matches[k].audio.stem
                    /\ matches[k].similarity[1] * 100
                          >= similarity_threshold * matches[k].similarity[2]
                    /\ matches[k].similarity[1] < matches[k].similarity[2]
        /\ ({video_files[i].stem : i \in DOMAIN video_files}
               \cap {audio_files[j].stem : j \in DOMAIN audio_files} = {})
              => \A k \in DOMAIN matches : matches[k].match_type # "exact"

\* a video left over by the exact pass, an audio of its stem being consumed
\* by an earlier video, was paired with an audio of another stem; the list
\* holds a candidate of each type
C28_Witness ==
    /\ match_pc = "matched"
    /\ Len(matches) = 2
    /\ video_files[1].stem = video_files[2].stem
    /\ matches[1].match_type = "exact"
    /\ matches[2].match_type = "similar"
    /\ matches[2].video.stem # matches[2].audio.stem
    /\ similarity_threshold > 0

(***************************************************************************)
(* SpecScenario: match_files on the files ep1.mp4, ep2.mp4, ep1.m4a and    *)
(* ep2_audio.m4a, in either directory and in any order                     *)
(***************************************************************************)
Ep1      == <<"e", "p", "1">>
Ep2      == <<"e", "p", "2">>
Ep2Audio == <<"e", "p", "2", "_", "a", "u", "d", "i", "o">>
ScenarioVideos == [dir : Dirs, stem : {Ep1, Ep2}, ext : {".mp4"}]
ScenarioAudios == [dir : Dirs, stem : {Ep1, Ep2Audio}, ext : {".m4a"}]

InitScenario ==
    /\ video_files \in DistinctSeqs(ScenarioVideos, MaxVideos)
    /\ audio_files \in DistinctSeqs(ScenarioAudios, MaxAudios)
    /\ similarity_threshold \in Thresholds
    /\ matches = <<>>
    /\ match_pc = "input"
    /\ returned = <<>>
    /\ SimUnused
    /\ OrchUnused

SpecScenario == InitScenario /\ [][NextMatch]_vars

\* the lists are the scenario's: one video ep1 and one ep2, one audio ep1 and
\* one ep2_audio, threshold 0.8
ScenarioInput ==
    /\ similarity_threshold = 80
    /\ Len(video_files) = 2
    /\ {video_files[i].stem : i \in DOMAIN video_files} = {Ep1, Ep2}
    /\ Len(audio_files) = 2
    /\ {audio_files[j].stem : j \in DOMAIN audio_files} = {Ep1, Ep2Audio}

\* C15: for videos ep1.mp4, ep2.mp4 and audios ep1.m4a, ep2_audio.m4a with
\* threshold 0.8, ep1 is paired with ep1.m4a as an exact match with score
\* 1.0, and ep2 is paired with ep2_audio as a fuzzy match if
\* similarity('ep2', 'ep2_audio') >= 0.8 and is left unmatched otherwise.
C15_Scenario ==
    (match_pc = "matched" /\ ScenarioInput) =>
        /\ \E k \in DOMAIN matches :
              /\ matches[k].video.stem = Ep1
              /\ matches[k].audio.stem = Ep1
              /\ matches[k].match_type = "exact"
              /\ matches[k].similarity = <<1, 1>>
        /\ \A k \in DOMAIN matches :
              matches[k].video.stem = Ep2 =>
                  /\ matches[k].audio.stem = Ep2Audio
                  /\ matches[k].match_type = "similar"
        /\ (\E k \in DOMAIN matches : matches[k].video.stem = Ep2)
              <=> similarity(Ep2, Ep2Audio)[1] * 100 >= 80 * similarity(Ep2, Ep2Audio)[2]
        /\ Len(matches) <= 2

\* the scenario was matched: similarity('ep2', 'ep2_audio') is 6/12, so only
\* the exact pair of ep1 was returned
C15_Witness ==
    /\ match_pc = "matched" /\ ScenarioInput
    /\ Len(matches) = 1
    /\ matches[1].match_type = "exact"
    /\ similarity(Ep2, Ep2Audio) = <<6, 12>>

(***************************************************************************)
(* Merge orchestrators: state shared by the command-line and GUI variants  *)
(***************************************************************************)
Timeout       == 300          \* timeout=300 of subprocess.run, in seconds
output_suffix == "_merged"    \* default of output_suffix / suffix

\* Content of an output path: <<0, 0>> no file, <<0, 1>> a file that was
\* there before the first batch, <<0, 2>> a path whose stat() fails with a
\* permission error, <<r, t>> the file written by match t in batch r.
Absent       == <<0, 0>>
PreExisting  == <<0, 1>>
Inaccessible == <<0, 2>>

\* The batch: n videos and n audios, two directories holding the same stems.
BatchStem(k) ==
    IF k <= 2 THEN <<"a", "b">> ELSE IF k <= 4 THEN <<"c">> ELSE <<"a", "b", "c">>
BatchDir(k)   == IF k % 2 = 1 THEN "d1" ELSE "d2"
BatchVideo(k) == [dir |-> BatchDir(k), stem |-> BatchStem(k), ext |-> ".mp4"]
BatchAudio(k) == [dir |-> BatchDir(k), stem |-> BatchStem(k), ext |-> ".m4a"]

Tasks == DOMAIN matches

\* output_path of merge_file / merge_single
OutputPath(match, odir) ==
    [dir  |-> IF odir # None THEN odir ELSE match.video.dir,
     name |-> <<match.video.stem, output_suffix, match.video.ext>>]

Out(t) == OutputPath(matches[t], output_dir)

\* output_path.exists() returned True
Exists_Never(path) == FALSE
Exists(path) == fs[path] # Absent /\ fs[path] # Inaccessible

\* "if output_path.exists() and not overwrite"
OutputBlocked_Inverted(t) == Exists(Out(t)) /\ overwrite
OutputBlocked(t) == Exists(Out(t)) /\ ~overwrite

Running == {t \in Tasks : task_pc[t] = "proc"}      \* external processes alive
Busy    == {t \in Tasks : task_pc[t] \in {"merge", "proc"}}  \* pool threads at work

\* ThreadPoolExecutor(max_workers): a queued item starts only on a free thread
WorkerAvailable_Unbounded == TRUE
WorkerAvailable == Cardinality(Busy) < max_workers

\* The ffmpeg process honours -y / -n: it writes the output only when
\* overwriting is allowed or no file is there.
ToolMayWrite(t) == fs[Out(t)] # Inaccessible /\ (overwrite \/ fs[Out(t)] = Absent)

\* The matches, the settings and the files a batch starts from, with an idle
\* executor.
BatchInputs ==
    /\ \E n \in 0 .. MaxTasks :
          /\ video_files = [k \in 1 .. n |-> BatchVideo(k)]
          /\ audio_files = [k \in 1 .. n |-> BatchAudio(k)]
    /\ similarity_threshold = 80
    /\ matches = MatchFiles(video_files, audio_files, similarity_threshold)
    /\ match_pc = "matched"
    /\ returned = <<matches>>
    /\ output_dir \in {None, "out"}
    /\ overwrite \in BOOLEAN
    /\ fs \in [{OutputPath(matches[t], output_dir) : t \in DOMAIN matches}
                  -> {Absent, PreExisting, Inaccessible}]
    /\ Cardinality({path \in DOMAIN fs : fs[path] # Absent}) <= MaxPreset
    /\ work_queue = <<>>
    /\ task_pc = [t \in DOMAIN matches |-> "new"]
    /\ fut = [t \in DOMAIN matches |-> "pending"]
    /\ yielded = {}
    /\ results = <<>>
    /\ launched = [t \in DOMAIN matches |-> 0]
    /\ overdue = {}
    /\ success_count = None
    /\ SimUnused

InitBatch ==
    /\ BatchInputs
    /\ max_workers \in 1 .. MaxWorkers
    /\ main_pc = "idle"
    /\ run = 1
    /\ GuiUnused
    /\ RestUnused

\* A pool thread takes the oldest queued work item and enters merge_file.
WorkerTake ==
    /\ work_queue # <<>>
    /\ WorkerAvailable
    /\ task_pc' = [task_pc EXCEPT ![Head(work_queue)] = "merge"]
    /\ work_queue' = Tail(work_queue)
    /\ UNCHANGED <<simVars, matchVars, restVars, guiVars, cfgVars, fs, fut, launched, overdue, mainVars>>

(***************************************************************************)
(* SpecCli: VideoAudioMerger.merge_all, merge_file and quick_merge         *)
(***************************************************************************)
\* merge_file: the output exists and overwrite is off
merge_file_exists(t) ==
    /\ task_pc[t] = "merge"
    /\ OutputBlocked(t)
    /\ task_pc' = [task_pc EXCEPT ![t] = "done"]
    /\ fut' = [fut EXCEPT ![t] = "exists"]
    /\ UNCHANGED <<simVars, matchVars, restVars, guiVars, cfgVars, fs, work_queue, launched, overdue, mainVars>>

\* merge_file: output_path.exists() raises (stat refused), outside the try
merge_file_raises(t) ==
    /\ task_pc[t] = "merge"
    /\ fs[Out(t)] = Inaccessible
    /\ task_pc' = [task_pc EXCEPT ![t] = "done"]
    /\ fut' = [fut EXCEPT ![t] = "raised"]
    /\ UNCHANGED <<simVars, matchVars, restVars, guiVars, cfgVars, fs, work_queue, launched, overdue, mainVars>>

\* merge_file: subprocess.run starts the external process (no timeout given)
merge_file_run(t) ==
    /\ task_pc[t] = "merge"
    /\ fs[Out(t)] # Inaccessible
    /\ ~OutputBlocked(t)
    /\ task_pc' = [task_pc EXCEPT ![t] = "proc"]
    /\ launched' = [launched EXCEPT ![t] = @ + 1]
    /\ UNCHANGED <<simVars, matchVars, restVars, guiVars, cfgVars, fs, work_queue, fut, overdue, mainVars>>

\* merge_file: subprocess.run raises before a process exists; caught by
\* "except Exception"
merge_file_run_fails(t) ==
    /\ task_pc[t] = "merge"
    /\ fs[Out(t)] # Inaccessible
    /\ ~OutputBlocked(t)
    /\ task_pc' = [task_pc EXCEPT ![t] = "done"]
    /\ fut' = [fut EXCEPT ![t] = "exec_failed"]
    /\ UNCHANGED <<simVars, matchVars, restVars, guiVars, cfgVars, fs, work_queue, launched, overdue, mainVars>>

\* Timeout seconds pass and the external process is still running;
\* subprocess.run was given no timeout, so merge_file keeps waiting.
merge_file_still_running(t) ==
    /\ task_pc[t] = "proc"
    /\ t \notin overdue
    /\ overdue' = overdue \cup {t}
    /\ UNCHANGED <<simVars, matchVars, restVars, guiVars, cfgVars, fs, work_queue, task_pc, fut,
                   launched, mainVars>>

\* the external process exits with code 0, having written the output
merge_file_returncode_0(t) ==
    /\ task_pc[t] = "proc"
    /\ ToolMayWrite(t)
    /\ fs' = [fs EXCEPT ![Out(t)] = <<run, t>>]
    /\ task_pc' = [task_pc EXCEPT ![t] = "done"]
    /\ fut' = [fut EXCEPT ![t] = "ok"]
    /\ overdue' = overdue \ {t}
    /\ UNCHANGED <<simVars, matchVars, restVars, guiVars, cfgVars, work_queue, launched, mainVars>>

\* the external process exits with a non-zero code, leaving nothing or a
\* partial output behind
merge_file_returncode_nonzero(t) ==
    /\ task_pc[t] = "proc"
    /\ \/ UNCHANGED fs
       \/ ToolMayWrite(t) /\ fs' = [fs EXCEPT ![Out(t)] = <<run, t>>]
    /\ task_pc' = [task_pc EXCEPT ![t] = "done"]
    /\ fut' = [fut EXCEPT ![t] = "tool_error"]
    /\ overdue' = overdue \ {t}
    /\ UNCHANGED <<simVars, matchVars, restVars, guiVars, cfgVars, work_queue, launched, mainVars>>

\* merge_all: "if not self.matches: return []", else open the executor
merge_all_enter ==
    /\ main_pc = "idle"
    /\ main_pc' = IF matches = <<>> THEN "tally" ELSE "submit"
    /\ UNCHANGED <<simVars, matchVars, restVars, guiVars, cfgVars, fs, poolVars, run, yielded,
                   results, success_count>>

\* merge_all: executor.submit for the next match of self.matches
merge_all_submit ==
    /\ main_pc = "submit"
    /\ LET t == Min({u \in Tasks : task_pc[u] = "new"})
       IN  /\ task_pc' = [task_pc EXCEPT ![t] = "queued"]
           /\ work_queue' = Append(work_queue, t)
           /\ main_pc' = IF \A u \in Tasks \ {t} : task_pc[u] # "new"
                            THEN "collect" ELSE "submit"
    /\ UNCHANGED <<simVars, matchVars, restVars, guiVars, cfgVars, fs, fut, launched, overdue, run,
                   yielded, results, success_count>>

\* What the body of the as_completed loop appends to results for a future
\* in state f: the try branch for a returned (success, message), the except
\* branch for a raised exception.
ResultEntries_DropRaised(t, f) ==
    IF f = "raised" THEN <<>>
    ELSE <<[match |-> t, success |-> (f = "ok"), message |-> f]>>
ResultEntries(t, f) ==
    IF f = "raised"
    THEN <<[match |-> t, success |-> FALSE, message |-> "exception"]>>
    ELSE <<[match |-> t, success |-> (f = "ok"), message |-> f]>>

\* merge_all: as_completed yields a finished future; one loop iteration
merge_all_collect(t) ==
    /\ main_pc = "collect"
    /\ fut[t] # "pending"
    /\ t \notin yielded
    /\ yielded' = yielded \cup {t}
    /\ results' = results \o ResultEntries(t, fut[t])
    /\ UNCHANGED <<simVars, matchVars, restVars, guiVars, cfgVars, fs, poolVars, run, main_pc,
                   success_count>>

\* as_completed is exhausted: every submitted future has been yielded
AllCollected_StopOnFailure ==
    yielded = Tasks \/ \E i \in DOMAIN results : ~results[i].success
AllCollected == yielded = Tasks

\* merge_all: the loop is over; the with block ends, results are returned
merge_all_return ==
    /\ main_pc = "collect"
    /\ AllCollected
    /\ main_pc' = "tally"
    /\ UNCHANGED <<simVars, matchVars, restVars, guiVars, cfgVars, fs, poolVars, run, yielded,
                   results, success_count>>

\* quick_merge: success_count = sum(1 for r in results if r['success'])
quick_merge_tally ==
    /\ main_pc = "tally"
    /\ success_count' = Cardinality({i \in DOMAIN results : results[i].success})
    /\ main_pc' = "done"
    /\ UNCHANGED <<simVars, matchVars, restVars, guiVars, cfgVars, fs, poolVars, run, yielded, results>>

\* The same batch is run a second time: a new merge_all on the same matches
\* and the same files.
quick_merge_again ==
    /\ main_pc = "done"
    /\ run = 1
    /\ run' = 2
    /\ main_pc' = "idle"
    /\ work_queue' = <<>>
    /\ task_pc' = [t \in Tasks |-> "new"]
    /\ fut' = [t \in Tasks |-> "pending"]
    /\ yielded' = {}
    /\ results' = <<>>
    /\ launched' = [t \in Tasks |-> 0]
    /\ overdue' = {}
    /\ success_count' = None
    /\ UNCHANGED <<simVars, matchVars, restVars, guiVars, cfgVars, fs>>

NextCli ==
    \/ merge_all_enter
    \/ merge_all_submit
    \/ WorkerTake
    \/ \E t \in Tasks : merge_file_exists(t)
    \/ \E t \in Tasks : merge_file_raises(t)
    \/ \E t \in Tasks : merge_file_run(t)
    \/ \E t \in Tasks : merge_file_run_fails(t)
    \/ \E t \in Tasks : merge_file_returncode_0(t)
    \/ \E t \in Tasks : merge_file_returncode_nonzero(t)
    \/ \E t \in Tasks : merge_file_still_running(t)
    \/ \E t \in Tasks : merge_all_collect(t)
    \/ merge_all_return
    \/ quick_merge_tally
    \/ quick_merge_again

SpecCli == InitBatch /\ [][NextCli]_vars

(***************************************************************************)
(* SpecGui: VideoAudioMergerGUI (video_audio_merger_gui.py): start_merge,  *)
(* stop_merge, merge_all on its own thread, merge_single in the pool       *)
(***************************************************************************)
InitGui ==
    /\ BatchInputs
    /\ max_workers \in 0 .. MaxWorkers    \* the Spinbox (1 to 4) accepts typed text
    /\ main_pc = "idle"
    /\ run = 0
    /\ is_running = FALSE
    /\ merge_btn = IF matches = <<>> THEN "disabled" ELSE "normal"
    /\ stop_btn = "disabled"
    /\ failed_count = None
    /\ RestUnused

\* start_merge, from a click on the start button: FFmpeg verified, matches
\* present; the merge_all thread is started.
start_merge ==
    /\ merge_btn = "normal"
    /\ matches # <<>>
    /\ run < MaxBatches
    /\ run' = run + 1
    /\ is_running' = TRUE
    /\ merge_btn' = "disabled"
    /\ stop_btn' = "normal"
    /\ main_pc' = "start"
    /\ UNCHANGED <<simVars, matchVars, restVars, cfgVars, fs, poolVars, yielded, results,
                   success_count, failed_count>>

\* stop_merge, from a click on the stop button
stop_merge ==
    /\ stop_btn = "normal"
    /\ is_running' = FALSE
    /\ UNCHANGED <<simVars, matchVars, restVars, cfgVars, fs, poolVars, mainVars,
                   merge_btn, stop_btn, failed_count>>

\* merge_all: success_count = 0, a new executor with no future yet
gui_merge_all_enter ==
    /\ main_pc = "start"
    /\ max_workers > 0
    /\ main_pc' = "submit"
    /\ success_count' = 0
    /\ work_queue' = <<>>
    /\ task_pc' = [t \in Tasks |-> "new"]
    /\ fut' = [t \in Tasks |-> "pending"]
    /\ launched' = [t \in Tasks |-> 0]
    /\ overdue' = {}
    /\ yielded' = {}
    /\ results' = <<>>
    /\ UNCHANGED <<simVars, matchVars, restVars, guiVars, cfgVars, fs, run>>

\* merge_all: ThreadPoolExecutor(max_workers=0) raises ValueError; nothing
\* catches it, the thread ends and the statements after the with block are
\* never run
gui_merge_all_raises ==
    /\ main_pc = "start"
    /\ max_workers <= 0
    /\ main_pc' = "raised"
    /\ UNCHANGED <<simVars, matchVars, restVars, guiVars, cfgVars, fs, poolVars, run,
                   yielded, results, success_count>>

\* merge_all, submit loop: is_running is set, the next match is submitted
gui_merge_all_submit ==
    /\ main_pc = "submit"
    /\ is_running
    /\ \E u \in Tasks : task_pc[u] = "new"
    /\ LET t == Min({u \in Tasks : task_pc[u] = "new"})
       IN  /\ task_pc' = [task_pc EXCEPT ![t] = "queued"]
           /\ work_queue' = Append(work_queue, t)
    /\ UNCHANGED <<simVars, matchVars, restVars, guiVars, cfgVars, fs, fut, launched,
                   overdue, mainVars>>

\* merge_all, submit loop: left by "if not self.is_running: break" or at the
\* end of self.matches
gui_merge_all_submit_end ==
    /\ main_pc = "submit"
    /\ ~is_running \/ \A u \in Tasks : task_pc[u] # "new"
    /\ main_pc' = "collect"
    /\ UNCHANGED <<simVars, matchVars, restVars, guiVars, cfgVars, fs, poolVars, run,
                   yielded, results, success_count>>

\* futures of future_to_match
Submitted == {t \in Tasks : task_pc[t] # "new"}

\* merge_all, as_completed loop with is_running set: the outcome is logged
\* and counted
gui_merge_all_collect(t) ==
    /\ main_pc = "collect"
    /\ t \in Submitted /\ fut[t] # "pending" /\ t \notin yielded
    /\ is_running
    /\ yielded' = yielded \cup {t}
    /\ results' = results \o ResultEntries(t, fut[t])
    /\ success_count' = IF fut[t] = "ok" THEN success_count + 1 ELSE success_count
    /\ UNCHANGED <<simVars, matchVars, restVars, guiVars, cfgVars, fs, poolVars, run, main_pc>>

\* merge_all, as_completed loop with is_running cleared:
\* executor.shutdown(wait=False) and break
gui_merge_all_collect_stopped(t) ==
    /\ main_pc = "collect"
    /\ t \in Submitted /\ fut[t] # "pending" /\ t \notin yielded
    /\ ~is_running
    /\ yielded' = yielded \cup {t}
    /\ main_pc' = "exit"
    /\ UNCHANGED <<simVars, matchVars, restVars, guiVars, cfgVars, fs, poolVars, run,
                   results, success_count>>

\* merge_all: as_completed is exhausted
gui_merge_all_collect_end ==
    /\ main_pc = "collect"
    /\ yielded = Submitted
    /\ main_pc' = "exit"
    /\ UNCHANGED <<simVars, matchVars, restVars, guiVars, cfgVars, fs, poolVars, run,
                   yielded, results, success_count>>

\* the with block ends: shutdown(wait=True) returns once the pool threads have
\* run every queued work item
ExecutorJoined == work_queue = <<>> /\ Busy = {}

\* merge_all after the with block: flags, buttons and the final message box
\* "success: success_count, failed: total - success_count"
gui_merge_all_finish ==
    /\ main_pc = "exit"
    /\ ExecutorJoined
    /\ is_running' = FALSE
    /\ merge_btn' = "normal"
    /\ stop_btn' = "disabled"
    /\ failed_count' = Len(matches) - success_count
    /\ main_pc' = "done"
    /\ UNCHANGED <<simVars, matchVars, restVars, cfgVars, fs, poolVars, run, yielded,
                   results, success_count>>

\* merge_single has the statements of merge_file, with timeout=300 given to
\* subprocess.run
merge_single_exists(t)             == merge_file_exists(t)
merge_single_raises(t)             == merge_file_raises(t)
merge_single_run(t)                == merge_file_run(t)
merge_single_run_fails(t)          == merge_file_run_fails(t)
merge_single_returncode_0(t)       == merge_file_returncode_0(t)
merge_single_returncode_nonzero(t) == merge_file_returncode_nonzero(t)

\* merge_single: Timeout seconds pass with the process still running;
\* subprocess.run kills it and raises TimeoutExpired, caught by
\* "except Exception".  The killed process may leave a partial output.
merge_single_timeout(t) ==
    /\ task_pc[t] = "proc"
    /\ \/ UNCHANGED fs
       \/ ToolMayWrite(t) /\ fs' = [fs EXCEPT ![Out(t)] = <<run, t>>]
    /\ task_pc' = [task_pc EXCEPT ![t] = "done"]
    /\ fut' = [fut EXCEPT ![t] = "timeout"]
    /\ UNCHANGED <<simVars, matchVars, restVars, guiVars, cfgVars, work_queue, launched,
                   overdue, mainVars>>

NextGui ==
    \/ start_merge
    \/ stop_merge
    \/ gui_merge_all_enter
    \/ gui_merge_all_raises
    \/ gui_merge_all_submit
    \/ gui_merge_all_submit_end
    \/ WorkerTake
    \/ \E t \in Tasks : merge_single_exists(t)
    \/ \E t \in Tasks : merge_single_raises(t)
    \/ \E t \in Tasks : merge_single_run(t)
    \/ \E t \in Tasks : merge_single_run_fails(t)
    \/ \E t \in Tasks : merge_single_returncode_0(t)
    \/ \E t \in Tasks : merge_single_returncode_nonzero(t)
    \/ \E t \in Tasks : merge_single_timeout(t)
    \/ \E t \in Tasks : gui_merge_all_collect(t)
    \/ \E t \in Tasks : gui_merge_all_collect_stopped(t)
    \/ gui_merge_all_collect_end
    \/ gui_merge_all_finish

SpecGui == InitGui /\ [][NextGui]_vars

(***************************************************************************)
(* SpecSetup: quick_merge from the construction of VideoAudioMerger to the *)
(* end of the batch                                                        *)
(*                                                                         *)
(* provided_path: None (no argument), "missing" (no file there), "broken"  *)
(* (a file that does not run as ffmpeg), "ffmpeg" (the working tool).      *)
(* config: "absent", "corrupt" (not JSON), "no_key" (no ffmpeg_path        *)
(* entry), "saved_missing" / "saved_exists" (an entry whose file is        *)
(* missing / exists).                                                      *)
(* ffmpeg_path after construction: where the path came from ("provided",   *)
(* "config", "PATH", "common") or None.                                    *)
(***************************************************************************)
ProvidedPaths == {None, "missing", "broken", "ffmpeg"}
Configs == {"absent", "corrupt", "no_key", "saved_missing", "saved_exists"}
QuickMergeWorkers == 2      \* max_workers=2 in quick_merge

\* Path(provided_path).exists()
ProvidedExists(provided) == provided \in {"broken", "ffmpeg"}

\* _load_config: reads self.config_file; an attribute not yet assigned raises
\* AttributeError.  Returns what .get('ffmpeg_path') gives, None for {}.
LoadConfig(cf, cfg) ==
    IF cf = "unset" THEN <<"raise", "AttributeError">>
    ELSE IF cfg \in {"saved_missing", "saved_exists"} THEN <<"ok", cfg>>
    ELSE <<"ok", None>>

\* _get_ffmpeg_path(provided_path)
GetFfmpegPath(provided, cf, cfg, inp, com) ==
    IF provided # None /\ ProvidedExists(provided) THEN <<"ok", "provided">>
    ELSE LET loaded == LoadConfig(cf, cfg)
         IN  IF loaded[1] = "raise" THEN loaded
             ELSE IF loaded[2] = "saved_exists" THEN <<"ok", "config">>
             ELSE IF inp THEN <<"ok", "PATH">>
             ELSE IF com THEN <<"ok", "common">>
             ELSE <<"ok", None>>

\* verify_ffmpeg: the path is set, exists and "ffmpeg -version" exits with 0
VerifyFfmpeg ==
    /\ ffmpeg_path # None
    /\ ffmpeg_path = "provided" => provided_path = "ffmpeg"

InitSetup ==
    /\ BatchInputs
    /\ Len(matches) <= 1
    /\ overwrite = FALSE
    /\ max_workers = QuickMergeWorkers
    /\ main_pc = "construct"
    /\ run = 1
    /\ GuiUnused
    /\ PathUnused
    /\ ProgUnused
    /\ SeqUnused
    /\ provided_path \in ProvidedPaths
    /\ config \in Configs
    /\ in_path \in BOOLEAN
    /\ common \in BOOLEAN
    /\ config_file = "unset"
    /\ ffmpeg_path = "unset"
    /\ error = None

\* VideoAudioMerger.__init__: self.ffmpeg_path = self._get_ffmpeg_path(...),
\* then self.config_file = ..., self.matches = []
VideoAudioMerger_init ==
    /\ main_pc = "construct"
    /\ LET got == GetFfmpegPath(provided_path, config_file, config, in_path, common)
       IN  IF got[1] = "raise"
           THEN /\ error' = got[2]
                /\ main_pc' = "raised"
                /\ UNCHANGED <<ffmpeg_path, config_file>>
           ELSE /\ ffmpeg_path' = got[2]
                /\ config_file' = "home"
                /\ main_pc' = "verify"
                /\ UNCHANGED error
    /\ UNCHANGED <<simVars, matchVars, pathVars, progVars, seqVars, provided_path, config, in_path,
                   common, guiVars, cfgVars, fs, poolVars, run, yielded, results,
                   success_count>>

\* quick_merge: verify_ffmpeg failed; the error is printed and False returned
quick_merge_ffmpeg_error ==
    /\ main_pc = "verify"
    /\ ~VerifyFfmpeg
    /\ error' = "ffmpeg_error"
    /\ main_pc' = "returned"
    /\ UNCHANGED <<simVars, matchVars, pathVars, progVars, seqVars, provided_path, config, in_path,
                   common, config_file, ffmpeg_path, guiVars, cfgVars, fs, poolVars,
                   run, yielded, results, success_count>>

\* quick_merge: verify_ffmpeg succeeded; scan_directory and match_files
\* give the matches; without any, "no matches" is printed and False returned
quick_merge_match ==
    /\ main_pc = "verify"
    /\ VerifyFfmpeg
    /\ IF matches = <<>>
          THEN error' = "no_matches" /\ main_pc' = "returned"
          ELSE error' = error /\ main_pc' = "idle"
    /\ UNCHANGED <<simVars, matchVars, pathVars, progVars, seqVars, provided_path, config, in_path,
                   common, config_file, ffmpeg_path, guiVars, cfgVars, fs, poolVars,
                   run, yielded, results, success_count>>

NextSetup ==
    \/ VideoAudioMerger_init
    \/ quick_merge_ffmpeg_error
    \/ quick_merge_match
    \/ NextCli

SpecSetup == InitSetup /\ [][NextSetup]_vars

\* no working tool can be found: none provided that works, none saved, none
\* on the PATH, none at a common location
ToolUnavailable ==
    /\ provided_path # "ffmpeg"
    /\ config # "saved_exists"
    /\ ~in_path
    /\ ~common

\* C18 as stated: with the tool path missing or invalid the batch is aborted
\* before any task runs: no merge process is spawned and quick_merge reports
\* the configuration error.
C18_AbortsAndReports ==
    ToolUnavailable =>
        /\ \A t \in Tasks : launched[t] = 0 /\ task_pc[t] = "new"
        /\ main_pc \notin {"construct", "verify"} =>
              main_pc = "returned" /\ error = "ffmpeg_error"

\* the path the fallbacks of _get_ffmpeg_path are documented to give
ExpectedFfmpegPath ==
    IF ProvidedExists(provided_path) THEN "provided"
    ELSE IF config = "saved_exists" THEN "config"
    ELSE IF in_path THEN "PATH"
    ELSE IF common THEN "common"
    ELSE None

\* C19 as stated: constructing VideoAudioMerger with ffmpeg_path None or a
\* path that does not exist completes without error and resolves the tool
\* path from the saved configuration, then the PATH, then the common
\* locations, giving None only when none of them exists.
C19_ConstructorFallsBack ==
    (main_pc # "construct" /\ provided_path \in {None, "missing"}) =>
        /\ error # "AttributeError"
        /\ ffmpeg_path = ExpectedFfmpegPath

(***************************************************************************)
(* SpecPath: the output path merge_file and merge_single resolve for one   *)
(* match, as a directory and a file name spelled out in characters         *)
(***************************************************************************)
\* the characters of a suffix argument and of a file extension
SuffixChars(sfx) ==
    IF sfx = "" THEN <<>> ELSE <<"_", "m", "e", "r", "g", "e", "d">>
ExtChars(ext) ==
    IF ext = ".mp4" THEN <<".", "m", "p", "4">> ELSE <<".", "m", "4", "a">>

\* the path of a scanned file
PathOf(file) == [dir |-> file.dir, name |-> file.stem \o ExtChars(file.ext)]

\* "if output_dir: Path(output_dir) / name else: video.parent / name", with
\* name = f"{video.stem}{output_suffix}{video.suffix}"
ResolvedDir(video, odir) == IF odir # None THEN odir ELSE video.dir
ResolvedPath(video, odir, sfx) ==
    [dir  |-> ResolvedDir(video, odir),
     name |-> video.stem \o SuffixChars(sfx) \o ExtChars(video.ext)]

Suffixes   == {"_merged", ""}
OutputDirs == {None, "out"} \cup Dirs

InitPath ==
    /\ \E v \in VideoPool, a \in AudioPool :
          /\ video_files = <<v>>
          /\ audio_files = <<a>>
    /\ similarity_threshold \in Thresholds
    /\ matches = MatchFiles(video_files, audio_files, similarity_threshold)
    /\ match_pc = "matched"
    /\ returned = <<matches>>
    /\ suffix \in Suffixes
    /\ output_dir \in OutputDirs
    /\ output_path = NoPath
    /\ overwrite = FALSE
    /\ max_workers = 1
    /\ fs = <<>>
    /\ run = 1
    /\ main_pc = "idle"
    /\ work_queue = <<>>
    /\ task_pc = <<>>
    /\ fut = <<>>
    /\ yielded = {}
    /\ results = <<>>
    /\ launched = <<>>
    /\ overdue = {}
    /\ success_count = None
    /\ SimUnused
    /\ GuiUnused
    /\ ToolUnused
    /\ ProgUnused
    /\ SeqUnused

\* merge_file: output_path for the match, from output_dir and output_suffix
merge_file_output_path ==
    /\ output_path = NoPath
    /\ matches # <<>>
    /\ output_path' = ResolvedPath(matches[1].video, output_dir, suffix)
    /\ UNCHANGED <<simVars, matchVars, cfgVars, fs, poolVars, mainVars, guiVars,
                   suffix, toolVars, progVars, seqVars>>

\* merge_single of the GUI: the same two assignments
merge_single_output_path ==
    /\ output_path = NoPath
    /\ matches # <<>>
    /\ output_path' = ResolvedPath(matches[1].video, output_dir, suffix)
    /\ main_pc' = "start"
    /\ UNCHANGED <<simVars, matchVars, cfgVars, fs, poolVars, run, yielded, results,
                   success_count, guiVars, suffix, toolVars, progVars, seqVars>>

NextPath == merge_file_output_path \/ merge_single_output_path

SpecPath == InitPath /\ [][NextPath]_vars

\* C16 as stated: for every match, every output suffix (the empty one
\* included) and every output directory setting, the resolved output path
\* differs from the path of the match's video and from that of its audio.
C16_OutputIsNoInput ==
    output_path # NoPath =>
        /\ output_path # PathOf(matches[1].video)
        /\ output_path # PathOf(matches[1].audio)

(***************************************************************************)
(* SpecProgress: the read loop of merge_single_with_progress feeding the   *)
(* lines of one external process to FFmpegProgress                         *)
(*                                                                         *)
(* A line is [dur, time, speed]: the groups of its "Duration: H:M:S" token *)
(* and of its "time=H:M:S" token as <<H, M, S>>, and the characters its    *)
(* "speed=...x" token matched with [\d.]+, or <<>> where the pattern does  *)
(* not match the line.  The frame and fps fields, which nothing else       *)
(* reads, are left out.                                                    *)
(***************************************************************************)
MaxLines == 3      \* longest stream of one external process

NoToken == <<>>
DurationTokens == {<<0, 0, 0>>, <<0, 0, 2>>, <<0, 1, 0>>}
TimeTokens     == {<<0, 0, 0>>, <<0, 0, 1>>, <<0, 1, 30>>}
SpeedTokens    == {<<"1", ".", "5">>, <<"1", ".", "2", ".", "3">>}
Lines ==
    {[dur |-> d, time |-> NoToken, speed |-> NoToken] :
        d \in DurationTokens \cup {NoToken}}
        \cup {[dur |-> NoToken, time |-> t, speed |-> NoToken] : t \in TimeTokens}
        \cup {[dur |-> <<0, 0, 2>>, time |-> <<0, 0, 1>>, speed |-> NoToken]}
        \cup {[dur |-> NoToken, time |-> <<0, 0, 1>>, speed |-> sp] : sp \in SpeedTokens}

RECURSIVE SeqsUpTo(_, _)
SeqsUpTo(S, n) ==
    IF n = 0 THEN {<<>>}
    ELSE LET shorter == SeqsUpTo(S, n - 1)
         IN  shorter \cup {Append(q, x) : q \in {r \in shorter : Len(r) = n - 1},
                                            x \in S}

\* hours * 3600 + minutes * 60 + seconds
Seconds(token) == token[1] * 3600 + token[2] * 60 + token[3]

\* "if progress.duration == 0: progress.parse_duration(line)"
ShouldParseDuration_Always(d) == TRUE
ShouldParseDuration(d) == d = 0

\* parse_duration: the duration after the call
ParseDuration(d, line) == IF line.dur # NoToken THEN Seconds(line.dur) ELSE d

\* parse_progress: the current_time after the call
ParseTime(ct, line) == IF line.time # NoToken THEN Seconds(line.time) ELSE ct

\* float(text) for a text of digits and dots: accepted with at most one dot
\* and at least one digit, ValueError otherwise
FloatParses(text) ==
    /\ Cardinality({i \in DOMAIN text : text[i] = "."}) <= 1
    /\ \E i \in DOMAIN text : text[i] # "."

\* parse_progress raises on this line: float() of the speed group fails
SpeedRaises(line) == line.speed # NoToken /\ ~FloatParses(line.speed)

\* parse_progress: min(100, (current_time / duration) * 100), computed only
\* when both are positive
Percentage_Uncapped(pct, d, ct) ==
    IF d > 0 /\ ct > 0 THEN <<100 * ct, d>> ELSE pct
Percentage_Unguarded(pct, d, ct) ==
    IF ct >= d THEN <<100, 1>> ELSE <<100 * ct, d>>
Percentage(pct, d, ct) ==
    IF d > 0 /\ ct > 0
    THEN IF ct >= d THEN <<100, 1>> ELSE <<100 * ct, d>>
    ELSE pct

InitProgress ==
    /\ stream \in SeqsUpTo(Lines, MaxLines)
    /\ pos = 0
    /\ duration = 0
    /\ current_time = 0
    /\ percentage = <<0, 1>>
    /\ published = <<0, 1>>     \* merge_all stored percentage 0 before the call
    /\ speed = <<>>
    /\ raised = None
    /\ returncode = <<>>
    /\ task_result = None
    /\ SimUnused
    /\ MatchUnused
    /\ PathUnused
    /\ ToolUnused
    /\ SeqUnused
    /\ output_dir = None
    /\ overwrite = FALSE
    /\ max_workers = 1
    /\ fs = <<>>
    /\ run = 1
    /\ main_pc = "idle"
    /\ work_queue = <<>>
    /\ task_pc = <<>>
    /\ fut = <<>>
    /\ yielded = {}
    /\ results = <<>>
    /\ launched = <<>>
    /\ overdue = {}
    /\ success_count = None
    /\ GuiUnused

\* One iteration of "for line in process.stdout": the duration is parsed
\* while it is 0, the progress is parsed, and when parse_progress found a
\* time and more than 0.5 s passed since the last update the percentage is
\* published.
read_line ==
    /\ pos < Len(stream)
    /\ raised = None
    /\ ~SpeedRaises(stream[pos + 1])
    /\ LET line == stream[pos + 1]
           d    == IF ShouldParseDuration(duration)
                      THEN ParseDuration(duration, line) ELSE duration
           ct   == ParseTime(current_time, line)
           pct  == Percentage(percentage, d, ct)
       IN  /\ duration' = d
           /\ current_time' = ct
           /\ speed' = IF line.speed # NoToken THEN line.speed ELSE speed
           /\ percentage' = pct
           /\ \E due \in BOOLEAN :
                 published' = IF line.time # NoToken /\ due THEN pct ELSE published
    /\ pos' = pos + 1
    /\ UNCHANGED <<stream, raised, returncode, task_result, simVars, matchVars,
                   pathVars, toolVars, cfgVars, fs, poolVars, mainVars, guiVars,
                   seqVars>>

\* An iteration in which parse_progress raises ValueError at float() of the
\* speed group, after the duration and the time were stored: the exception
\* leaves the loop, "except Exception" logs it and returns False with the
\* process still running, and merge_all records the failure with
\* percentage 0.
read_line_raises ==
    /\ pos < Len(stream)
    /\ raised = None
    /\ SpeedRaises(stream[pos + 1])
    /\ LET line == stream[pos + 1]
       IN  /\ duration' = IF ShouldParseDuration(duration)
                             THEN ParseDuration(duration, line) ELSE duration
           /\ current_time' = ParseTime(current_time, line)
    /\ pos' = pos + 1
    /\ raised' = "ValueError"
    /\ task_result' = "failed"
    /\ published' = <<0, 1>>
    /\ UNCHANGED <<stream, percentage, speed, returncode, simVars, matchVars,
                   pathVars, toolVars, cfgVars, fs, poolVars, mainVars, guiVars,
                   seqVars>>

\* The stream ends: process.wait() gives the exit code, the function returns
\* returncode == 0 and merge_all records "done" with 100 or "failed" with 0.
process_exit ==
    /\ pos = Len(stream)
    /\ raised = None
    /\ returncode = <<>>
    /\ \E rc \in {0, 1} :
          /\ returncode' = <<rc>>
          /\ task_result' = IF rc = 0 THEN "ok" ELSE "failed"
          /\ published' = IF rc = 0 THEN <<100, 1>> ELSE <<0, 1>>
    /\ UNCHANGED <<stream, pos, duration, current_time, percentage, speed, raised,
                   simVars, matchVars, pathVars, toolVars, cfgVars, fs, poolVars,
                   mainVars, guiVars, seqVars>>

NextProgress == read_line \/ read_line_raises \/ process_exit

SpecProgress == InitProgress /\ [][NextProgress]_vars

\* duration tokens among the lines fed so far, in order
FedDurations ==
    LET fed == SubSeq(stream, 1, pos)
        with == SelectSeq(fed, LAMBDA l : l.dur # NoToken)
    IN  [i \in DOMAIN with |-> Seconds(with[i].dur)]

\* C20 as stated: the stored duration is that of the first duration token of
\* the stream; once a line carrying a duration token has been fed, no later
\* duration token changes it.
C20_FirstDurationWins ==
    duration = IF FedDurations = <<>> THEN 0 ELSE FedDurations[1]

\* C20, amended: the stored duration is that of the first duration token
\* whose value is greater than 0; once such a token has been fed no later
\* duration token changes it, while a token of 00:00:00 leaves the duration
\* at 0 and the next token is still taken.
C20_FirstPositiveDurationWins ==
    LET positive == SelectSeq(FedDurations, LAMBDA x : x > 0)
    IN  duration = IF positive = <<>> THEN 0 ELSE positive[1]

\* two duration tokens with different positive values were fed and the
\* stored duration is the first
C20_Witness ==
    /\ Len(FedDurations) >= 2
    /\ FedDurations[1] > 0
    /\ FedDurations[2] > 0
    /\ FedDurations[2] # FedDurations[1]
    /\ duration = FedDurations[1]

\* the value min(100, 100 * ct / d) is the rational pct
IsPercentageOf(pct, ct, d) ==
    IF ct >= d THEN pct[1] = 100 * pct[2] ELSE pct[1] * d = 100 * ct * pct[2]

\* C21 as stated: the percentage is set, to min(100, 100 * elapsed /
\* duration), only when the duration is greater than 0; a line carrying no
\* elapsed-time token, and any line fed while the duration is 0, leaves the
\* percentage at its last value.
C21_PercentageOnlyFromTime ==
    [][pos' = pos + 1 =>
          /\ percentage' # percentage =>
                /\ duration' > 0
                /\ IsPercentageOf(percentage', current_time', duration')
          /\ (stream[pos + 1].time = NoToken \/ duration' = 0) =>
                percentage' = percentage
      ]_vars

\* C21, amended: the percentage is set, to min(100, 100 * elapsed /
\* duration), only when the duration and the elapsed time are both greater
\* than 0; any line fed while the duration is 0, and a line carrying neither
\* an elapsed-time token nor a duration token, leaves the percentage at its
\* last value.
C21_PercentageOnlyFromTimeOrDuration ==
    [][pos' = pos + 1 =>
          /\ percentage' # percentage =>
                /\ duration' > 0 /\ current_time' > 0
                /\ IsPercentageOf(percentage', current_time', duration')
          /\ (duration' = 0) => percentage' = percentage
          /\ (stream[pos + 1].time = NoToken /\ stream[pos + 1].dur = NoToken) =>
                percentage' = percentage
      ]_vars

\* a line without any token was fed last, after a duration and a smaller
\* elapsed time had given a percentage between 0 and 100
C21_Witness ==
    /\ pos >= 3
    /\ stream[pos].time = NoToken /\ stream[pos].dur = NoToken
    /\ percentage[1] > 0
    /\ percentage[1] < 100 * percentage[2]

\* elapsed-time tokens among the first n lines of the stream, in order
TimesUpTo(n) ==
    LET with == SelectSeq(SubSeq(stream, 1, n), LAMBDA l : l.time # NoToken)
    IN  [i \in DOMAIN with |-> Seconds(with[i].time)]

NonDecreasing(q) == \A i, j \in DOMAIN q : i < j => q[i] <= q[j]

\* order and range of percentages held as <<numerator, denominator>>
PctLe(x, y) == x[1] * y[2] <= y[1] * x[2]
PctInRange(x) == x[2] > 0 /\ x[1] >= 0 /\ x[1] <= 100 * x[2]

\* C22: within one task the percentage held by the parser and the percentage
\* published in the progress map never decrease from one fed line to the
\* next when the elapsed-time tokens are non-decreasing, and both stay within
\* [0, 100] for every sequence of lines.  The published percentage is
\* compared while the task runs: the entry merge_all writes once the task has
\* ended is the task's outcome (100 or 0), not a step of its progress.
C22_MonotoneAndBounded ==
    [][pos' = pos + 1 =>
          /\ NonDecreasing(TimesUpTo(pos + 1)) =>
                /\ PctLe(percentage, percentage')
                /\ task_result' = None =>
                      /\ PctLe(published, published')
                      /\ PctLe(published', percentage')
          /\ PctInRange(percentage')
          /\ PctInRange(published')
      ]_vars

\* two growing elapsed times were fed after the duration, the second beyond
\* it, and a percentage was published for each
C22_Witness ==
    /\ Len(TimesUpTo(pos)) >= 2
    /\ TimesUpTo(pos)[1] > 0
    /\ TimesUpTo(pos)[1] < TimesUpTo(pos)[2]
    /\ TimesUpTo(pos)[2] > duration
    /\ duration > 0
    /\ published = <<100, 1>>
    /\ percentage = <<100, 1>>

\* C23 as stated: the parser raises for no line, whatever token is
\* malformed; a line matching none of the patterns leaves every field of the
\* progress state unchanged; and a failure is recorded for a task only when
\* its process has exited with a non-zero code, never because of a parse
\* problem.
C23_ParserNeverRaises ==
    [][/\ raised' = None
       /\ task_result' = "failed" => returncode' = <<1>>
       /\ (/\ pos' = pos + 1
           /\ stream[pos + 1].dur = NoToken
           /\ stream[pos + 1].time = NoToken
           /\ stream[pos + 1].speed = NoToken)
          => <<duration, current_time, speed, percentage>>'
                = <<duration, current_time, speed, percentage>>
      ]_vars

(***************************************************************************)
(* SpecSeq: a batch of the GUI with live progress                          *)
(* (video_audio_merger_gui_v3): start_merge starts one thread running      *)
(* merge_all, which merges the matches one after the other and stores the  *)
(* progress of each in current_progress; the UI thread runs the click      *)
(* handlers and the 500 ms timer that copies current_progress into the     *)
(* per-file widgets.  Init is the state after scan_files.                  *)
(*                                                                         *)
(* worker_pc: "idle" no thread, "check" at the top of the loop,            *)
(* "start_entry" / "progress_entry" / "done_entry" / "failed_entry" about  *)
(* to enter "with self.progress_lock", "start_stored" / "progress_stored"  *)
(* / "result_stored" inside it with the entry written, "single" at the     *)
(* call of merge_single_with_progress, "run" inside subprocess.run,        *)
(* "reading" inside the loop over process.stdout, "finish" after the loop  *)
(* of merge_all.  ui_pc: "idle", "clear" inside start_merge at             *)
(* current_progress.clear(), "refresh" inside refresh_progress_display.    *)
(* proc[t]: "none" | "running" | "exited" | "killed".                      *)
(***************************************************************************)
\* scanned files: one directory with distinct stems, or nested directories
\* holding the same stems (rglob descends into sub-directories)
FlatStem(k)  == [j \in 1 .. k |-> "a"]
FlatVideo(k) == [dir |-> "d1", stem |-> FlatStem(k), ext |-> ".mp4"]
FlatAudio(k) == [dir |-> "d1", stem |-> FlatStem(k), ext |-> ".m4a"]

\* match_files of this GUI: the exact pass only, entries {'video', 'audio'}
MatchFilesV3(videos, audios) ==
    LET exact == ExactPass(videos, audios, 1, <<>>, {}).matches
    IN  [k \in DOMAIN exact |-> [video |-> exact[k].video, audio |-> exact[k].audio]]

\* filename = match['video'].name
FileName(match) == <<match.video.stem, match.video.ext>>
Key(t) == FileName(matches[t])

\* d[k] = v on a dict
Put(d, k, v) == [x \in DOMAIN d \cup {k} |-> IF x = k THEN v ELSE d[x]]

\* create_progress_widgets: one widget per match, progress_labels[filename]
\* assigned in list order, nothing when detailed progress is off
CreateProgressWidgets(ms, detailed) ==
    IF ~detailed THEN <<>>
    ELSE [key \in {FileName(ms[k]) : k \in DOMAIN ms} |->
            CHOOSE k \in DOMAIN ms :
                /\ FileName(ms[k]) = key
                /\ \A j \in DOMAIN ms : FileName(ms[j]) = key => j <= k]

\* progress.percentage published by the read loop between 0 and 100
MidPercentage == 50

\* "if not self.is_running: break"
ShouldBreak_Never(running) == FALSE
ShouldBreak(running) == ~running

\* threading.Lock: "with self.progress_lock" is entered when nobody holds it
LockFree_Ignored(holder) == TRUE
LockFree(holder) == holder = None

WorkerInMap == worker_pc \in {"start_stored", "progress_stored", "result_stored"}
UiInMap     == ui_pc \in {"clear", "refresh"}

seqParked == <<simVars, matchVars, pathVars, toolVars, progVars, cfgVars, work_queue,
               task_pc, fut, overdue, main_pc, yielded, results,
               show_detailed_progress, progress_labels>>

InitSeq ==
    /\ \E n \in 0 .. MaxTasks, nested \in BOOLEAN :
          /\ video_files = [k \in 1 .. n |-> IF nested THEN BatchVideo(k) ELSE FlatVideo(k)]
          /\ audio_files = [k \in 1 .. n |-> IF nested THEN BatchAudio(k) ELSE FlatAudio(k)]
    /\ similarity_threshold = 80
    /\ matches = MatchFilesV3(video_files, audio_files)
    /\ match_pc = "matched"
    /\ returned = <<matches>>
    /\ output_dir \in {None, "out", ""}     \* None: "use the source directory"
    /\ overwrite = FALSE
    /\ max_workers = 1
    /\ fs = [path \in {OutputPath(matches[t], output_dir) : t \in DOMAIN matches}
                |-> Absent]                 \* outputs appear with the first batch
    /\ show_detailed_progress \in BOOLEAN
    /\ progress_labels = CreateProgressWidgets(matches, show_detailed_progress)
    /\ label_shows = [w \in DOMAIN matches |-> <<>>]
    /\ current_progress = <<>>
    /\ progress_lock = None
    /\ worker_pc = "idle"
    /\ ui_pc = "idle"
    /\ seq_i = 1
    /\ proc = [t \in DOMAIN matches |-> "none"]
    /\ launched = [t \in DOMAIN matches |-> 0]
    /\ run = 0
    /\ main_pc = "idle"
    /\ work_queue = <<>>
    /\ task_pc = <<>>
    /\ fut = <<>>
    /\ yielded = {}
    /\ results = <<>>
    /\ overdue = {}
    /\ success_count = None
    /\ is_running = FALSE
    /\ merge_btn = IF matches = <<>> THEN "disabled" ELSE "normal"
    /\ stop_btn = "disabled"
    /\ failed_count = None
    /\ SimUnused
    /\ PathUnused
    /\ ToolUnused
    /\ ProgUnused

\* ---- UI thread ----

\* start_merge up to current_progress.clear(): FFmpeg verified, matches
\* present, is_running set
v3_start_merge ==
    /\ ui_pc = "idle"
    /\ merge_btn = "normal"
    /\ matches # <<>>
    /\ run < MaxBatches
    /\ is_running' = TRUE
    /\ ui_pc' = "clear"
    /\ UNCHANGED <<seqParked, fs, launched, run, success_count, merge_btn, stop_btn,
                   failed_count, current_progress, label_shows, progress_lock,
                   worker_pc, seq_i, proc>>

\* the rest of start_merge: the map is emptied without taking the lock, the
\* buttons switch and the merge_all thread is started
v3_start_merge_thread ==
    /\ ui_pc = "clear"
    /\ current_progress' = <<>>
    /\ merge_btn' = "disabled"
    /\ stop_btn' = "normal"
    /\ run' = run + 1
    /\ worker_pc' = "check"
    /\ seq_i' = 1
    /\ success_count' = 0
    /\ launched' = [t \in Tasks |-> 0]
    /\ ui_pc' = "idle"
    /\ UNCHANGED <<seqParked, fs, is_running, failed_count, label_shows, progress_lock,
                   proc>>

\* stop_merge
v3_stop_merge ==
    /\ ui_pc = "idle"
    /\ stop_btn = "normal"
    /\ is_running' = FALSE
    /\ UNCHANGED <<seqParked, fs, launched, run, success_count, merge_btn, stop_btn,
                   failed_count, current_progress, label_shows, progress_lock,
                   worker_pc, ui_pc, seq_i, proc>>

\* update_progress_ui, from the timer: with a batch running and detailed
\* progress on, refresh_progress_display enters "with self.progress_lock"
v3_update_progress_ui ==
    /\ ui_pc = "idle"
    /\ is_running
    /\ show_detailed_progress
    /\ LockFree(progress_lock)
    /\ progress_lock' = "ui"
    /\ ui_pc' = "refresh"
    /\ UNCHANGED <<seqParked, fs, launched, run, success_count, guiVars,
                   current_progress, label_shows, worker_pc, seq_i, proc>>

\* refresh_progress_display: every entry whose file name has a widget is
\* copied into that widget; the lock is released
v3_refresh_progress_display ==
    /\ ui_pc = "refresh"
    /\ label_shows' =
          [w \in DOMAIN label_shows |->
              IF \E key \in DOMAIN current_progress :
                    key \in DOMAIN progress_labels /\ progress_labels[key] = w
              THEN LET key == CHOOSE k \in DOMAIN current_progress :
                                 k \in DOMAIN progress_labels /\ progress_labels[k] = w
                   IN  <<current_progress[key].task>>
              ELSE label_shows[w]]
    /\ progress_lock' = None
    /\ ui_pc' = "idle"
    /\ UNCHANGED <<seqParked, fs, launched, run, success_count, guiVars,
                   current_progress, worker_pc, seq_i, proc>>

\* ---- merge_all thread ----

\* top of the loop: a next match and is_running still set
v3_merge_all_next ==
    /\ worker_pc = "check"
    /\ seq_i <= Len(matches)
    /\ ~ShouldBreak(is_running)
    /\ worker_pc' = "start_entry"
    /\ UNCHANGED <<seqParked, fs, launched, run, success_count, guiVars,
                   current_progress, label_shows, progress_lock, ui_pc, seq_i, proc>>

\* the loop ends: no match left, or break on is_running cleared
v3_merge_all_leave ==
    /\ worker_pc = "check"
    /\ seq_i > Len(matches) \/ ShouldBreak(is_running)
    /\ worker_pc' = "finish"
    /\ UNCHANGED <<seqParked, fs, launched, run, success_count, guiVars,
                   current_progress, label_shows, progress_lock, ui_pc, seq_i, proc>>

\* with self.progress_lock: current_progress[filename] = {..., 'percentage': 0}
v3_merge_all_store_start ==
    /\ worker_pc = "start_entry"
    /\ LockFree(progress_lock)
    /\ progress_lock' = "worker"
    /\ current_progress' = Put(current_progress, Key(seq_i),
                               [task |-> seq_i, percentage |-> 0])
    /\ worker_pc' = "start_stored"
    /\ UNCHANGED <<seqParked, fs, launched, run, success_count, guiVars, label_shows,
                   ui_pc, seq_i, proc>>

\* merge_single_with_progress returns False before starting anything: no
\* output directory chosen, or the output exists
v3_merge_single_refused ==
    /\ worker_pc = "single"
    /\ output_dir = "" \/ OutputBlocked(seq_i)
    /\ worker_pc' = "failed_entry"
    /\ UNCHANGED <<seqParked, fs, launched, run, success_count, guiVars,
                   current_progress, label_shows, progress_lock, ui_pc, seq_i, proc>>

\* the external process is started: subprocess.run without detailed
\* progress, Popen with it
v3_merge_single_popen ==
    /\ worker_pc = "single"
    /\ output_dir # ""
    /\ ~OutputBlocked(seq_i)
    /\ launched' = [launched EXCEPT ![seq_i] = @ + 1]
    /\ proc' = [proc EXCEPT ![seq_i] = "running"]
    /\ worker_pc' = IF show_detailed_progress THEN "reading" ELSE "run"
    /\ UNCHANGED <<seqParked, fs, run, success_count, guiVars, current_progress,
                   label_shows, progress_lock, ui_pc, seq_i>>

\* starting the process raises (no executable at ffmpeg_path): caught, False
v3_merge_single_popen_raises ==
    /\ worker_pc = "single"
    /\ output_dir # ""
    /\ ~OutputBlocked(seq_i)
    /\ worker_pc' = "failed_entry"
    /\ UNCHANGED <<seqParked, fs, launched, run, success_count, guiVars,
                   current_progress, label_shows, progress_lock, ui_pc, seq_i, proc>>

\* the process exits: subprocess.run returns, or the stream ends and
\* process.wait returns; code 0 has written the output
v3_merge_single_exit ==
    /\ worker_pc \in {"run", "reading"}
    /\ \E rc \in {0, 1} :
          /\ fs' = IF rc = 0 THEN [fs EXCEPT ![Out(seq_i)] = <<run, seq_i>>] ELSE fs
          /\ worker_pc' = IF rc = 0 THEN "done_entry" ELSE "failed_entry"
    /\ proc' = [proc EXCEPT ![seq_i] = "exited"]
    /\ UNCHANGED <<seqParked, launched, run, success_count, guiVars, current_progress,
                   label_shows, progress_lock, ui_pc, seq_i>>

\* subprocess.run(timeout=300) expires: run() kills the process and raises,
\* the bare except returns False
v3_merge_single_run_timeout ==
    /\ worker_pc = "run"
    /\ proc' = [proc EXCEPT ![seq_i] = "killed"]
    /\ worker_pc' = "failed_entry"
    /\ UNCHANGED <<seqParked, fs, launched, run, success_count, guiVars,
                   current_progress, label_shows, progress_lock, ui_pc, seq_i>>

\* the read loop raises (float() of a malformed speed token) or
\* process.wait(timeout=300) expires: "except Exception" returns False and
\* the process is left running
v3_merge_single_raises ==
    /\ worker_pc = "reading"
    /\ worker_pc' = "failed_entry"
    /\ UNCHANGED <<seqParked, fs, launched, run, success_count, guiVars,
                   current_progress, label_shows, progress_lock, ui_pc, seq_i, proc>>

\* a status line parsed more than 0.5 s after the last update
v3_merge_single_progress_line ==
    /\ worker_pc = "reading"
    /\ worker_pc' = "progress_entry"
    /\ UNCHANGED <<seqParked, fs, launched, run, success_count, guiVars,
                   current_progress, label_shows, progress_lock, ui_pc, seq_i, proc>>

\* with self.progress_lock: current_progress[filename] = {text, percentage}
v3_merge_single_store_progress ==
    /\ worker_pc = "progress_entry"
    /\ LockFree(progress_lock)
    /\ progress_lock' = "worker"
    /\ current_progress' = Put(current_progress, Key(seq_i),
                               [task |-> seq_i, percentage |-> MidPercentage])
    /\ worker_pc' = "progress_stored"
    /\ UNCHANGED <<seqParked, fs, launched, run, success_count, guiVars, label_shows,
                   ui_pc, seq_i, proc>>

\* merge_all records the outcome: completed += 1 and percentage 100 on
\* success, percentage 0 on failure
v3_merge_all_store_result ==
    /\ worker_pc \in {"done_entry", "failed_entry"}
    /\ LockFree(progress_lock)
    /\ progress_lock' = "worker"
    /\ current_progress' =
          Put(current_progress, Key(seq_i),
              [task |-> seq_i,
               percentage |-> IF worker_pc = "done_entry" THEN 100 ELSE 0])
    /\ success_count' = IF worker_pc = "done_entry" THEN success_count + 1
                                                     ELSE success_count
    /\ worker_pc' = "result_stored"
    /\ UNCHANGED <<seqParked, fs, launched, run, guiVars, label_shows, ui_pc, seq_i,
                   proc>>

\* the with block is left: the lock is released and the thread goes on to
\* the call, back to the read loop, or to the next match
v3_worker_release ==
    /\ WorkerInMap
    /\ progress_lock' = None
    /\ worker_pc' = CASE worker_pc = "start_stored"    -> "single"
                      [] worker_pc = "progress_stored" -> "reading"
                      [] worker_pc = "result_stored"   -> "check"
    /\ seq_i' = IF worker_pc = "result_stored" THEN seq_i + 1 ELSE seq_i
    /\ UNCHANGED <<seqParked, fs, launched, run, success_count, guiVars,
                   current_progress, label_shows, ui_pc, proc>>

\* after the loop: is_running cleared, the buttons switched back, the
\* message box shows "failed: total - completed"; the thread ends
v3_merge_all_finish ==
    /\ worker_pc = "finish"
    /\ is_running' = FALSE
    /\ merge_btn' = "normal"
    /\ stop_btn' = "disabled"
    /\ failed_count' = Len(matches) - success_count
    /\ worker_pc' = "idle"
    /\ UNCHANGED <<seqParked, fs, launched, run, success_count, current_progress,
                   label_shows, progress_lock, ui_pc, seq_i, proc>>

NextSeq ==
    \/ v3_start_merge
    \/ v3_start_merge_thread
    \/ v3_stop_merge
    \/ v3_update_progress_ui
    \/ v3_refresh_progress_display
    \/ v3_merge_all_next
    \/ v3_merge_all_leave
    \/ v3_merge_all_store_start
    \/ v3_merge_single_refused
    \/ v3_merge_single_popen
    \/ v3_merge_single_popen_raises
    \/ v3_merge_single_exit
    \/ v3_merge_single_run_timeout
    \/ v3_merge_single_raises
    \/ v3_merge_single_progress_line
    \/ v3_merge_single_store_progress
    \/ v3_merge_all_store_result
    \/ v3_worker_release
    \/ v3_merge_all_finish

SpecSeq == InitSeq /\ [][NextSeq]_vars

\* C24: every access of current_progress by the merge_all thread and by the
\* refresh timer is made holding progress_lock, and in no reachable state is
\* the worker inside a write while the UI thread is inside a read or any
\* other access of the map (the unlocked clear() of start_merge included).
C24_MapAccessExclusive ==
    /\ WorkerInMap => progress_lock = "worker"
    /\ ui_pc = "refresh" => progress_lock = "ui"
    /\ ~(WorkerInMap /\ UiInMap)

\* the UI thread is inside refresh_progress_display, showing an entry of the
\* running task, while the worker has a parsed line to store and waits for
\* the lock
C24_Witness ==
    /\ ui_pc = "refresh"
    /\ progress_lock = "ui"
    /\ worker_pc = "progress_entry"
    /\ Key(seq_i) \in DOMAIN current_progress
    /\ current_progress[Key(seq_i)].percentage = MidPercentage

\* match t of the running batch has not passed the is_running check: the
\* loop is before it, or at it with the check still to make or just failed
NotBegun(t) ==
    /\ worker_pc # "idle"
    /\ t > seq_i \/ (t = seq_i /\ worker_pc \in {"check", "finish"})

\* C27: stop_merge only clears is_running: it changes nothing of the worker
\* and terminates no external process, so the task in flight goes on to its
\* own outcome; and once is_running is cleared, no match that had not passed
\* the check at the top of the loop is begun or has a process started.
C27_CooperativeCancel ==
    [][/\ (is_running /\ ~is_running' /\ worker_pc' = worker_pc) =>
              /\ proc' = proc
              /\ launched' = launched
              /\ <<seq_i, current_progress, fs, success_count>>'
                    = <<seq_i, current_progress, fs, success_count>>
       /\ \A t \in Tasks :
              (~is_running /\ NotBegun(t)) =>
                  /\ launched'[t] = launched[t]
                  /\ proc'[t] = proc[t]
                  /\ NotBegun(t)' \/ worker_pc' = "idle"
      ]_vars

\* stop was pressed while the process of the first of two matches was
\* running: that process exited by itself with its output written and its
\* success recorded, and the loop was left without beginning the second
C27_Witness ==
    /\ Len(matches) = 2
    /\ worker_pc = "finish"
    /\ ~is_running
    /\ seq_i = 2
    /\ proc = <<"exited", "none">>
    /\ launched = <<1, 0>>
    /\ fs[Out(1)] = <<run, 1>>
    /\ success_count = 1

\* C29 as stated: no two matches of a batch have the same key; a widget
\* shows only the progress of its own match; and the entry of a match whose
\* outcome has been recorded is still that match's entry.
C29_KeysDistinct ==
    /\ \A t, u \in Tasks : t # u => Key(t) # Key(u)
    /\ \A w \in DOMAIN label_shows :
          label_shows[w] # <<>> => label_shows[w][1] = w
    /\ \A t \in Tasks :
          (worker_pc # "idle" /\ t < seq_i) =>
              /\ Key(t) \in DOMAIN current_progress
              /\ current_progress[Key(t)].task = t

\* Entries of results that belong to match t
EntriesOf(t) == {i \in DOMAIN results : results[i].match = t}

\* The output of match t is a readable file that was there when the current
\* batch began
PresentAtStart(t) == fs[Out(t)] = PreExisting \/ fs[Out(t)][1] \in 1 .. (run - 1)

\* C2: at most max_workers external merge processes run at the same time.
C2_AtMostMaxWorkers == Cardinality(Running) <= max_workers

\* max_workers processes are running while a further match waits in the queue
C2_Witness == Cardinality(Running) = max_workers /\ work_queue # <<>>

C6_SecondRunAllSkipped ==
    (run = 2 /\ main_pc = "done" /\ ~overwrite) =>
        \A t \in Tasks : fut[t] = "exists" /\ launched[t] = 0

\* C6, amended: on the second run with overwrite off, every task whose output
\* file exists when the second run starts ends with the already-exists outcome
\* and no external process is launched for it.
C6_SecondRunSkipsExisting ==
    (run = 2 /\ ~overwrite) =>
        \A t \in Tasks :
            PresentAtStart(t) =>
                /\ launched[t] = 0
                /\ task_pc[t] = "done" => fut[t] = "exists"
                /\ \A i \in EntriesOf(t) :
                      ~results[i].success /\ results[i].message = "exists"

\* the second run is over and every task of it was skipped over an output
\* written by the first run
C6_Witness ==
    /\ run = 2 /\ main_pc = "done" /\ ~overwrite
    /\ Tasks # {}
    /\ \A t \in Tasks : fs[Out(t)][1] = 1 /\ fut[t] = "exists"
    /\ Len(results) = Len(matches)

\* C7: a task that finds its output path existing with overwrite off ends with
\* the already-exists outcome without launching a process and without touching
\* the file; with overwrite off no existing output file is ever changed.
C7_SkipLeavesFile ==
    [][/\ \A t \in Tasks :
             (/\ task_pc[t] = "merge"
              /\ fs[Out(t)] # Absent /\ fs[Out(t)] # Inaccessible
              /\ ~overwrite
              /\ task_pc'[t] # "merge")
             => /\ task_pc'[t] = "done"
                /\ fut'[t] = "exists"
                /\ launched' = launched
                /\ fs' = fs
       /\ ~overwrite =>
             \A path \in DOMAIN fs : fs[path] # Absent => fs'[path] = fs[path]
      ]_vars

\* a task was skipped over a file that was there before the batch
C7_Witness ==
    \E t \in Tasks :
        /\ run = 1 /\ ~overwrite
        /\ fut[t] = "exists" /\ launched[t] = 0
        /\ fs[Out(t)] = PreExisting

C17_DistinctOutputsInFlight ==
    \A t, u \in Running : t # u => Out(t) # Out(u)

\* C9 as stated: an external process that has run for longer than the timeout
\* has been killed, so none is still running past it.
C9_KilledAfterTimeout == \A t \in Tasks : ~(task_pc[t] = "proc" /\ t \in overdue)

\* The merge_all thread of the GUI is inside its with block and stop_merge
\* has cleared is_running.
Cancelled == main_pc \in {"start", "submit", "collect", "exit"} /\ ~is_running

\* C3 as stated: once stop_merge has cleared is_running, no task that had not
\* begun executing is started, so no further external process is launched.
C3_NoStartAfterCancel ==
    [][Cancelled =>
          \A t \in Tasks :
              task_pc[t] \in {"new", "queued"} => task_pc'[t] \in {"new", "queued"}
      ]_vars

\* C5 as stated: after a batch, cancelled or not, every task has exactly one
\* reported outcome and the reported failure count is the number of tasks whose
\* merge did not succeed.
C5_CancelledReported ==
    main_pc = "done" =>
        /\ \A t \in Tasks : Cardinality(EntriesOf(t)) = 1
        /\ failed_count = Cardinality({t \in Tasks : fut[t] \notin {"pending", "ok"}})

\* the merge_all thread of the GUI is running
ThreadAlive == main_pc \in {"start", "submit", "collect", "exit"}

\* C30 as stated: while a merge_all thread is alive the start button is
\* disabled, so start_merge and stop_merge cannot start a second batch
\* alongside it; and once merge_all has ended, by whatever path, is_running
\* is False and the start button is enabled again.
C30_OneBatchAndButtonRestored ==
    /\ ThreadAlive => merge_btn = "disabled"
    /\ main_pc \in {"done", "raised"} => (~is_running /\ merge_btn = "normal")

====
